---- MODULE Spec2Model ----
(***************************************************************************)
(* Bulk ingestion job orchestrator of the biomedical RAG service           *)
(* (app/services/bulk_ingestion_service.py) with the collaborators it      *)
(* drives: the PubMed paper source, the paper repository session, the      *)
(* embedding path of the RAG service and the job store.                    *)
(*                                                                         *)
(* One action is one stretch of a coroutine between two suspension points  *)
(* that matter (an awaited collaborator call and what follows it up to the *)
(* next awaited call).  Collaborator calls made inside a per-document      *)
(* try block may raise; the job-store UPDATE statements are taken to       *)
(* succeed.  Scores and thresholds are integers, hundredths of the         *)
(* program's floats (0.7 is 70).  progress_percentage is the exact ratio   *)
(* <<numerator, denominator>> of the float the program stores.             *)
(***************************************************************************)
EXTENDS Integers, Sequences, FiniteSets, TLC

\* ------------------------------------------------------------------ bounds
\* Longest result set the paper source returns.
MaxDocs == 3
\* settings.BATCH_SIZE, scaled down so that full and partial batches occur.
BATCH_SIZE == 2
\* Number of collaborator calls that raise in one behaviour.
MaxFaults == 2
\* Entries of the vector store that one search can find, over all content types.
MaxHits == 2

\* Most words of a full text that is split into chunks, and the largest
\* CHUNK_SIZE it is split with.
MaxWords == 6

MaxChunkSize == 3

\* Longest run of filler characters around the matched word of a content.
MaxPad == 260

\* --------------------------------------------------------------- constants
\* start_pos - 50, start_pos + 200 and content[:200] of _generate_highlight.
ContextBefore == 50

ContextAfter == 200

FallbackLength == 200

\* quality_score given to every created paper.
DEFAULT_QUALITY_SCORE == 70

JobIds == {"j1"}
Sources == {"pubmed", "cochrane"}
QualityThresholds == {70, 90}
None == "none"

\* Normalized records the paper source can return.  A result set may hold
\* the same record more than once (two subject areas finding one article).
DocA == [pmid |-> "p1", doi |-> None, title |-> "t1"]
DocB == [pmid |-> "p2", doi |-> None, title |-> "t2"]
DocUniverse == {DocA, DocB}

SeqsUpTo(S, n) == UNION {[1..m -> S] : m \in 0..n}

\* --------------------------------------------------------------- variables
VARIABLES
  jobStore,     \* ingestion_jobs table: job id -> row
  active_jobs,  \* BulkIngestionService.active_jobs (keys)
  jobObj,       \* the in-memory IngestionJob object of each job
  request,      \* the BulkIngestionRequest each execution was given
  exec,         \* locals and position of each _execute_bulk_ingestion task
  papers,       \* papers table, committed rows
  session,      \* rows flushed in the open batch session, not yet committed
  vstore,       \* vector store: <<paper id, content type>>
  writes,       \* history: job-row writes issued by submit and the execution
  docLog,       \* history: what happened to each document of a job
  fetchInfo,    \* history: what happened inside the paper source
  faults,       \* number of collaborator calls that have raised so far
  resumedPaused,\* history: the last resume_job of a job found it paused
  search,       \* one search_papers call: its inputs and its response
  call          \* one call of a helper method: its arguments and its result

vars == <<jobStore, active_jobs, jobObj, request, exec, papers, session,
          vstore, writes, docLog, fetchInfo, faults, resumedPaused, search,
          call>>

\* ------------------------------------------------------------ job store
\* Column defaults of the IngestionJob model, with what submit sets.
NewJobRow(src) ==
  [source |-> src,
   status |-> "pending",
   progress_percentage |-> <<0, 1>>,
   total_documents |-> 0,
   processed_documents |-> 0,
   successful_documents |-> 0,
   failed_documents |-> 0,
   duplicate_documents |-> 0,
   errors |-> <<>>,
   job_summary |-> <<>>,
   created_at |-> "set",
   started_at |-> None,
   completed_at |-> None,
   can_resume |-> TRUE,
   resume_from_position |-> 0]

\* An UPDATE ... WHERE id = :job_id changes the row when there is one.
UpdateRow(store, j, newRow) ==
  IF j \in DOMAIN store THEN [store EXCEPT ![j] = newRow] ELSE store

RowOf(store, j) == IF j \in DOMAIN store THEN store[j] ELSE NewJobRow(None)

\* _update_job_status: the status, and started_at when it is passed.
StatusRow(row, status, started) ==
  IF started
    THEN [row EXCEPT !.status = status, !.started_at = "set"]
    ELSE [row EXCEPT !.status = status]

\* A percentage taken from the offset of the current batch instead of the
\* number of documents processed.
ProgressPercentage_FromOffset(e) == <<e.i * 100, Len(e.papers_data)>>

\* progress_percentage = (total_processed / len(papers_data)) * 100, from
\* the locals e of the execution.
ProgressPercentage(e) == <<e.total_processed * 100, Len(e.papers_data)>>

\* _update_job_progress: the five progress columns, and errors when the list
\* passed is not empty.  total_documents and resume_from_position are not
\* among the columns it sets.
ProgressRow(row, progress, processed, successful, failed, duplicates, errors) ==
  LET r == [row EXCEPT !.progress_percentage = progress,
                       !.processed_documents = processed,
                       !.successful_documents = successful,
                       !.failed_documents = failed,
                       !.duplicate_documents = duplicates]
  IN IF errors # <<>> THEN [r EXCEPT !.errors = errors] ELSE r

\* A final write that leaves completed_at unset.
CompletionRow_NoCompletedAt(row, status, summary, errors) ==
  [row EXCEPT !.status = status,
              !.job_summary = summary,
              !.errors = errors]

\* _update_job_completion: status, completed_at, job_summary and errors.
CompletionRow(row, status, summary, errors) ==
  [row EXCEPT !.status = status,
              !.completed_at = "set",
              !.job_summary = summary,
              !.errors = errors]

\* get_job_status: the columns it returns, or None for a missing row.
GetJobStatus(j) ==
  IF j \in DOMAIN jobStore
    THEN <<[status |-> jobStore[j].status,
            progress_percentage |-> jobStore[j].progress_percentage,
            total_documents |-> jobStore[j].total_documents,
            processed_documents |-> jobStore[j].processed_documents,
            successful_documents |-> jobStore[j].successful_documents,
            failed_documents |-> jobStore[j].failed_documents,
            duplicate_documents |-> jobStore[j].duplicate_documents,
            started_at |-> jobStore[j].started_at,
            completed_at |-> jobStore[j].completed_at]>>
    ELSE <<>>

\* One entry of the write history: the statement, the status it set (None
\* for a progress write) and the other columns of the row after it.
LogWrite(j, op, status, store) ==
  Append(writes[j], [op |-> op, status |-> status,
                     row |-> [RowOf(store, j) EXCEPT !.status = status]])

\* A collaborator call raises / no collaborator call raises in this step.
Fault == faults < MaxFaults /\ faults' = faults + 1
NoFault == faults' = faults

\* ---------------------------------------------------------- paper source
\* search_papers: the id list, or [] when the request fails.
SearchPapers(found, err) == IF err = "search" THEN <<>> ELSE found

\* fetch_paper_details / _fetch_paper_batch: the parsed records, or [] for
\* a batch whose request fails (every result set here is one batch of 200).
FetchPaperDetails(pmids, err) ==
  IF pmids = <<>> THEN <<>> ELSE IF err = "detail" THEN <<>> ELSE pmids

\* bulk_search_and_fetch over two subject areas.
BulkSearchAndFetch(found1, err1, found2, err2) ==
  FetchPaperDetails(SearchPapers(found1, err1), err1)
    \o FetchPaperDetails(SearchPapers(found2, err2), err2)

TransportOutcomes == {"ok", "search", "detail"}

\* ------------------------------------------------------ duplicate detector
\* str.lower() on the titles of the model: "T1" is "t1" in capitals.
Lower(title) == CASE title = "T1" -> "t1" [] OTHER -> title

\* hashlib.md5(...).hexdigest()[:8] on the lower-cased titles of the model;
\* "t4" is a title whose 8-character prefix collides with that of "t1".
HashPrefix(title) ==
  CASE title = "t1" -> "h1"
    [] title = "t2" -> "h2"
    [] title = "t3" -> "h3"
    [] title = "t4" -> "h1"
    [] OTHER -> "h0"

\* _check_duplicate against the rows the session sees.
IsDuplicate(visible, doc) ==
  \/ doc.pmid # None /\ \E p \in visible : p.pmid = doc.pmid
  \/ doc.doi # None /\ \E p \in visible : p.doi = doc.doi
  \/ \E p \in visible : HashPrefix(Lower(p.title)) = HashPrefix(Lower(doc.title))

\* A detector without the title fallback.
MatchedBy_IdsOnly(visible, doc) ==
  IF doc.pmid # None /\ \E p \in visible : p.pmid = doc.pmid THEN "pmid"
  ELSE IF doc.doi # None /\ \E p \in visible : p.doi = doc.doi THEN "doi"
  ELSE "none"

\* The check of _check_duplicate that returns True, in the order of lines
\* 207-230; "none" when the last query finds no row.
MatchedBy(visible, doc) ==
  IF doc.pmid # None /\ \E p \in visible : p.pmid = doc.pmid THEN "pmid"
  ELSE IF doc.doi # None /\ \E p \in visible : p.doi = doc.doi THEN "doi"
  ELSE IF \E p \in visible : HashPrefix(Lower(p.title)) = HashPrefix(Lower(doc.title))
    THEN "title"
  ELSE "none"

\* Rows a statement of job j's batch session reads.
Visible(j) == papers \cup session[j]

\* A table without unique constraints.
ViolatesUnique_Never(visible, doc) == FALSE

\* unique=True on papers.pmid and papers.doi
ViolatesUnique(visible, doc) ==
  \/ doc.pmid # None /\ \E p \in visible : p.pmid = doc.pmid
  \/ doc.doi # None /\ \E p \in visible : p.doi = doc.doi

\* An uncommitted row of another session holds the pmid or doi of the
\* document: the INSERT waits until that transaction commits or ends.
LockedByOther(j, doc) ==
  \E k \in DOMAIN session \ {j} : ViolatesUnique(session[k], doc)

\* ----------------------------------------------------------- execution
ZeroResults == [successful |-> 0, failed |-> 0, duplicates |-> 0, errors |-> <<>>]

IdleExec ==
  [pc |-> "idle", papers_data |-> <<>>, i |-> 0, k |-> 0,
   total_processed |-> 0, successful_papers |-> 0, failed_papers |-> 0,
   duplicate_papers |-> 0, errors |-> <<>>, results |-> ZeroResults,
   paper |-> <<>>, docStart |-> ZeroResults, checkRaised |-> FALSE]

Min(a, b) == IF a < b THEN a ELSE b

\* batch = papers_data[i:i + batch_size]
Batch(e) == SubSeq(e.papers_data, e.i + 1, Min(e.i + BATCH_SIZE, Len(e.papers_data)))

CurrentDoc(e) == Batch(e)[e.k]

\* f"Paper {paper_data.get('pmid', 'unknown')}: {str(e)}"
PaperError(doc, cause) == <<"Paper", doc.pmid, cause>>

\* No search_papers call is in progress.
IdleSearch == [pc |-> "idle"]

IdleCall == [pc |-> "idle"]

BulkInit ==
  /\ jobStore = <<>>
  /\ active_jobs = {}
  /\ jobObj = [j \in JobIds |-> [status |-> "pending", total_documents |-> 0]]
  /\ request = [j \in JobIds |-> [source_database |-> None, quality_threshold |-> 0]]
  /\ exec = [j \in JobIds |-> IdleExec]
  /\ papers = {}
  /\ session = [j \in JobIds |-> {}]
  /\ vstore = {}
  /\ writes = [j \in JobIds |-> <<>>]
  /\ docLog = [j \in JobIds |-> <<>>]
  /\ fetchInfo = [j \in JobIds |-> [called |-> FALSE, raised |-> FALSE,
                                      transport_error |-> FALSE]]
  /\ faults = 0
  /\ resumedPaused = [j \in JobIds |-> FALSE]

Init ==
  /\ BulkInit
  /\ search = IdleSearch
  /\ call = IdleCall

\* ------------------------------------------------------------- submit
\* start_bulk_ingestion: the job row is written with status pending, the job
\* enters active_jobs and the execution task is created.  The source of the
\* request is stored, not inspected.
Submit(j, src, thr) ==
  /\ exec[j].pc = "idle"
  /\ jobStore' = (j :> NewJobRow(src)) @@ jobStore
  /\ active_jobs' = active_jobs \cup {j}
  /\ jobObj' = [jobObj EXCEPT ![j] = [status |-> "pending", total_documents |-> 0]]
  /\ request' = [request EXCEPT ![j] =
                   [source_database |-> src, quality_threshold |-> thr]]
  /\ exec' = [exec EXCEPT ![j].pc = "start"]
  /\ writes' = [writes EXCEPT ![j] = LogWrite(j, "create", "pending", jobStore')]
  /\ UNCHANGED <<papers, session, vstore, docLog, fetchInfo, faults>>
  /\ UNCHANGED <<resumedPaused, search, call>>

\* A source check that lets every source through to the fetch.
SourceSupported_Any(src) == TRUE

\* if request.source_database == "pubmed"
SourceSupported(src) == src = "pubmed"

\* An except branch that passes the accumulated errors and drops the cause.
FailureErrors_Accumulated(errors, e) == errors

\* ValueError(f"Unsupported source database: {request.source_database}")
UnsupportedSourceError(src) == <<"Unsupported source database", src>>

\* errors=[str(e)] of the except branch: the accumulated errors are not passed.
FailureErrors(errors, e) == <<e>>

\* except Exception as e: ... finally: ... of _execute_bulk_ingestion.
FailJob(j, e) ==
  /\ jobStore' = UpdateRow(jobStore, j,
                   CompletionRow(RowOf(jobStore, j), "failed", <<>>,
                                 FailureErrors(exec[j].errors, e)))
  /\ writes' = [writes EXCEPT ![j] = LogWrite(j, "completion", "failed", jobStore')]
  /\ active_jobs' = active_jobs \ {j}
  /\ exec' = [exec EXCEPT ![j].pc = "done"]

\* Lines 83-92: the task looks its job up in active_jobs and returns when it
\* is gone; otherwise it writes status running with started_at.
ExecStart(j) ==
  /\ exec[j].pc = "start"
  /\ \/ /\ j \notin active_jobs
        /\ exec' = [exec EXCEPT ![j].pc = "done"]
        /\ UNCHANGED <<jobStore, writes>>
     \/ /\ j \in active_jobs
        /\ jobStore' = UpdateRow(jobStore, j, StatusRow(RowOf(jobStore, j), "running", TRUE))
        /\ writes' = [writes EXCEPT ![j] = LogWrite(j, "status", "running", jobStore')]
        /\ exec' = [exec EXCEPT ![j].pc = "fetch"]
  /\ UNCHANGED <<active_jobs, jobObj, request, papers, session, vstore, docLog,
                 fetchInfo, faults>>
  /\ UNCHANGED <<resumedPaused, search, call>>

\* A request of the paper source failed: the search, or the detail fetch of
\* a non-empty id list.
TransportFailed(found, err) == err = "search" \/ (err = "detail" /\ found # <<>>)

\* Lines 101-110: the source check, the fetch, job.total_documents on the
\* in-memory object and the first progress write.
FetchPapers(j) ==
  /\ exec[j].pc = "fetch"
  /\ \/ /\ ~SourceSupported(request[j].source_database)
        /\ FailJob(j, UnsupportedSourceError(request[j].source_database))
        /\ NoFault
        /\ UNCHANGED <<jobObj, fetchInfo>>
     \/ /\ SourceSupported(request[j].source_database)
        /\ Fault
        /\ FailJob(j, "fetch raised")
        /\ fetchInfo' = [fetchInfo EXCEPT ![j].called = TRUE, ![j].raised = TRUE]
        /\ UNCHANGED jobObj
     \/ /\ SourceSupported(request[j].source_database)
        /\ \E found1 \in SeqsUpTo(DocUniverse, MaxDocs),
              found2 \in SeqsUpTo(DocUniverse, MaxDocs),
              err1 \in TransportOutcomes, err2 \in TransportOutcomes :
             /\ Len(found1) + Len(found2) <= MaxDocs
             /\ IF TransportFailed(found1, err1) \/ TransportFailed(found2, err2)
                  THEN Fault ELSE NoFault
             /\ LET data == BulkSearchAndFetch(found1, err1, found2, err2)
                IN /\ jobObj' = [jobObj EXCEPT ![j].total_documents = Len(data)]
                   /\ exec' = [exec EXCEPT ![j].papers_data = data,
                                           ![j].pc = IF Len(data) > 0 THEN "batch"
                                                     ELSE "complete"]
                   /\ jobStore' = UpdateRow(jobStore, j,
                                    ProgressRow(RowOf(jobStore, j), <<0, 1>>, 0, 0, 0, 0, <<>>))
                   /\ writes' = [writes EXCEPT ![j] =
                                   LogWrite(j, "progress", None, jobStore')]
                   /\ fetchInfo' = [fetchInfo EXCEPT
                                      ![j].called = TRUE,
                                      ![j].transport_error =
                                         TransportFailed(found1, err1)
                                           \/ TransportFailed(found2, err2)]
        /\ UNCHANGED active_jobs
  /\ UNCHANGED <<request, papers, session, vstore, docLog>>
  /\ UNCHANGED <<resumedPaused, search, call>>

\* _process_paper_batch up to its first document: the results dictionary and
\* the batch session.  Acquiring the session is outside every per-document
\* try block, so a failure there reaches the except branch of the execution.
BeginBatch(j) ==
  /\ exec[j].pc = "batch"
  /\ \/ /\ exec' = [exec EXCEPT ![j].pc = "check", ![j].k = 1,
                                ![j].results = ZeroResults,
                                ![j].docStart = ZeroResults,
                                ![j].checkRaised = FALSE]
        /\ session' = [session EXCEPT ![j] = {}]
        /\ NoFault
        /\ UNCHANGED <<jobStore, writes, active_jobs>>
     \/ /\ Fault
        /\ FailJob(j, "session unavailable")
        /\ UNCHANGED session
  /\ UNCHANGED <<jobObj, request, papers, vstore, docLog, fetchInfo>>
  /\ UNCHANGED <<resumedPaused, search, call>>

\* The locals after the current document: the next document of the batch, or
\* the end of the batch.
AfterDoc(e, results) ==
  [e EXCEPT !.results = results,
            !.docStart = results,
            !.checkRaised = FALSE,
            !.paper = <<>>,
            !.k = IF e.k < Len(Batch(e)) THEN e.k + 1 ELSE e.k,
            !.pc = IF e.k < Len(Batch(e)) THEN "check" ELSE "batch_end"]

DocEntry(e, results, outcome) ==
  [index |-> e.i + e.k,
   doc |-> CurrentDoc(e),
   outcome |-> outcome,
   check_raised |-> e.checkRaised,
   successful |-> results.successful - e.docStart.successful,
   failed |-> results.failed - e.docStart.failed,
   duplicates |-> results.duplicates - e.docStart.duplicates,
   errors |-> Len(results.errors) - Len(e.docStart.errors)]

\* except Exception as e: of the per-document try block.
Raised(results, doc, cause) ==
  [results EXCEPT !.failed = @ + 1, !.errors = Append(@, PaperError(doc, cause))]

\* _check_duplicate with its except branch: an error inside it answers False.
CheckDuplicate(visible, doc, raises) ==
  IF raises THEN FALSE ELSE IsDuplicate(visible, doc)

\* Lines 175-180: the duplicate check and the duplicates counter.
CheckDuplicateStep(j) ==
  /\ exec[j].pc = "check"
  /\ \E raises \in BOOLEAN :
       /\ IF raises THEN Fault ELSE NoFault
       /\ LET e == [exec[j] EXCEPT !.checkRaised = raises]
              doc == CurrentDoc(e)
              dup == [e.results EXCEPT !.duplicates = @ + 1]
          IN IF CheckDuplicate(Visible(j), doc, raises)
               THEN /\ exec' = [exec EXCEPT ![j] = AfterDoc(e, dup)]
                    /\ docLog' = [docLog EXCEPT ![j] =
                                    Append(@, DocEntry(e, dup, "duplicate"))]
               ELSE /\ exec' = [exec EXCEPT ![j] = [e EXCEPT !.pc = "create"]]
                    /\ UNCHANGED docLog
  /\ UNCHANGED <<jobStore, active_jobs, jobObj, request, papers, session, vstore,
                 writes, fetchInfo>>
  /\ UNCHANGED <<resumedPaused, search, call>>

\* Paper(...) of _create_paper_record.
NewPaper(id, doc) ==
  [id |-> id, pmid |-> doc.pmid, doi |-> doc.doi, title |-> doc.title,
   processing_status |-> "processing",
   quality_score |-> DEFAULT_QUALITY_SCORE,
   embedding_generated |-> FALSE]

\* A test that rejects a score equal to the threshold.
QualityAccepted_Strict(score, threshold) == score > threshold

\* if paper.quality_score >= quality_threshold
QualityAccepted(score, threshold) == score >= threshold

\* Lines 182-192: _create_paper_record (add and flush) and the quality test.
CreatePaperRecord(j) ==
  /\ exec[j].pc = "create"
  /\ ~LockedByOther(j, CurrentDoc(exec[j]))
  /\ LET e == exec[j]
         doc == CurrentDoc(e)
         paper == NewPaper(<<j, e.i + e.k>>, doc)
         low == [e.results EXCEPT !.failed = @ + 1]
         bad == Raised(e.results, doc, "create")
     IN \/ /\ IF ViolatesUnique(Visible(j), doc) THEN NoFault ELSE Fault
           /\ exec' = [exec EXCEPT ![j] = AfterDoc(e, bad)]
           /\ docLog' = [docLog EXCEPT ![j] =
                           Append(@, DocEntry(e, bad, "raised_create"))]
           /\ UNCHANGED session
        \/ /\ ~ViolatesUnique(Visible(j), doc)
           /\ NoFault
           /\ QualityAccepted(paper.quality_score, request[j].quality_threshold)
           /\ session' = [session EXCEPT ![j] = @ \cup {paper}]
           /\ exec' = [exec EXCEPT ![j].pc = "rag", ![j].paper = paper.id]
           /\ UNCHANGED docLog
        \/ /\ ~ViolatesUnique(Visible(j), doc)
           /\ NoFault
           /\ ~QualityAccepted(paper.quality_score, request[j].quality_threshold)
           /\ session' = [session EXCEPT ![j] =
                            @ \cup {[paper EXCEPT !.processing_status = "failed"]}]
           /\ exec' = [exec EXCEPT ![j].pc = "commit", ![j].paper = paper.id,
                                   ![j].results = low]
           /\ UNCHANGED docLog
  /\ UNCHANGED <<jobStore, active_jobs, jobObj, request, papers, vstore, writes,
                 fetchInfo>>
  /\ UNCHANGED <<resumedPaused, search, call>>

\* generate_paper_embeddings: the content types a record yields, in order.
ContentTypes(doc) == IF doc.title # "" THEN <<"title">> ELSE <<>>

\* session.get(Paper, paper_id) in a session of its own, then the assignment
\* and the commit: only a committed row is found.
MarkPaper(table, id, status, generated) ==
  {IF p.id = id
     THEN [p EXCEPT !.processing_status = status,
                    !.embedding_generated = generated \/ p.embedding_generated]
     ELSE p : p \in table}

\* Lines 186-188 with process_paper_for_rag: the embeddings are generated and
\* stored one content type after the other, then the paper row is looked up
\* in a separate session.
ProcessPaperForRag(j) ==
  /\ exec[j].pc = "rag"
  /\ LET e == exec[j]
         doc == CurrentDoc(e)
         types == ContentTypes(doc)
         ok == [e.results EXCEPT !.successful = @ + 1]
         bad == Raised(e.results, doc, "rag")
     IN \/ /\ NoFault
           /\ vstore' = vstore \cup {<<e.paper, types[n]>> : n \in 1..Len(types)}
           /\ papers' = MarkPaper(papers, e.paper, "processed", TRUE)
           /\ exec' = [exec EXCEPT ![j].pc = "commit", ![j].results = ok]
           /\ UNCHANGED docLog
        \/ /\ Fault
           /\ \E m \in 0..Len(types) :
                /\ m < Len(types) \/ m = 0
                /\ vstore' = vstore \cup {<<e.paper, types[n]>> : n \in 1..m}
           /\ papers' = MarkPaper(papers, e.paper, "failed", FALSE)
           /\ exec' = [exec EXCEPT ![j] = AfterDoc(e, bad)]
           /\ docLog' = [docLog EXCEPT ![j] =
                           Append(@, DocEntry(e, bad, "raised_rag"))]
  /\ UNCHANGED <<jobStore, active_jobs, jobObj, request, session, writes,
                 fetchInfo>>
  /\ UNCHANGED <<resumedPaused, search, call>>

\* Line 194: await session.commit() inside the per-document try block.  A
\* commit writes every row the session holds; a failed commit rolls them back.
SessionCommit(j) ==
  /\ exec[j].pc = "commit"
  /\ LET e == exec[j]
         doc == CurrentDoc(e)
         bad == Raised(e.results, doc, "commit")
     IN \/ /\ NoFault
           /\ papers' = papers \cup session[j]
           /\ exec' = [exec EXCEPT ![j] = AfterDoc(e, e.results)]
           /\ docLog' = [docLog EXCEPT ![j] =
                           Append(@, DocEntry(e, e.results,
                              IF e.results.successful > e.docStart.successful
                                THEN "successful" ELSE "low_quality"))]
        \/ /\ Fault
           /\ UNCHANGED papers
           /\ exec' = [exec EXCEPT ![j] = AfterDoc(e, bad)]
           /\ docLog' = [docLog EXCEPT ![j] =
                           Append(@, DocEntry(e, bad, "raised_commit"))]
  /\ session' = [session EXCEPT ![j] = {}]
  /\ UNCHANGED <<jobStore, active_jobs, jobObj, request, vstore, writes,
                 fetchInfo>>
  /\ UNCHANGED <<resumedPaused, search, call>>

\* Lines 120-125: the counters after a batch.
UpdateCounters(e) ==
  [e EXCEPT !.total_processed = @ + Len(Batch(e)),
            !.successful_papers = @ + e.results.successful,
            !.failed_papers = @ + e.results.failed,
            !.duplicate_papers = @ + e.results.duplicates,
            !.errors = @ \o e.results.errors]

\* The end of _process_paper_batch (the session is closed, what it had not
\* committed is discarded) and lines 120-135: counters, progress write, sleep.
EndBatch(j) ==
  /\ exec[j].pc = "batch_end"
  /\ LET e == UpdateCounters(exec[j])
     IN /\ jobStore' = UpdateRow(jobStore, j,
                         ProgressRow(RowOf(jobStore, j), ProgressPercentage(e),
                                     e.total_processed, e.successful_papers,
                                     e.failed_papers, e.duplicate_papers, e.errors))
        /\ writes' = [writes EXCEPT ![j] = LogWrite(j, "progress", None, jobStore')]
        /\ exec' = [exec EXCEPT ![j] =
                      [e EXCEPT !.i = @ + BATCH_SIZE,
                                !.k = 0,
                                !.results = ZeroResults,
                                !.docStart = ZeroResults,
                                !.pc = IF e.i + BATCH_SIZE < Len(e.papers_data)
                                         THEN "batch" ELSE "complete"]]
  /\ session' = [session EXCEPT ![j] = {}]
  /\ UNCHANGED <<active_jobs, jobObj, request, papers, vstore, docLog, fetchInfo,
                 faults>>
  /\ UNCHANGED <<resumedPaused, search, call>>

\* job_summary of lines 139-147, without its timings.
JobSummary(e) ==
  <<[total_processed |-> e.total_processed, successful |-> e.successful_papers,
     failed |-> e.failed_papers, duplicates |-> e.duplicate_papers]>>

\* Lines 137-160: the completed write, then the finally block.
CompleteJob(j) ==
  /\ exec[j].pc = "complete"
  /\ jobStore' = UpdateRow(jobStore, j,
                   CompletionRow(RowOf(jobStore, j), "completed",
                                 JobSummary(exec[j]), exec[j].errors))
  /\ writes' = [writes EXCEPT ![j] = LogWrite(j, "completion", "completed", jobStore')]
  /\ active_jobs' = active_jobs \ {j}
  /\ exec' = [exec EXCEPT ![j].pc = "done"]
  /\ UNCHANGED <<jobObj, request, papers, session, vstore, docLog, fetchInfo,
                 faults>>
  /\ UNCHANGED <<resumedPaused, search, call>>

\* ------------------------------------------------- pause, resume, cancel
\* A pause that answers True for every job id.
PauseReturns_Always(active, j) == TRUE

\* The value pause_job returns: True for a job in active_jobs, else False.
PauseReturns(active, j) == j \in active

\* pause_job: only a job in active_jobs; the stored status becomes paused.
PauseJob(j) ==
  /\ \/ /\ PauseReturns(active_jobs, j)
        /\ jobObj' = [jobObj EXCEPT ![j].status = "paused"]
        /\ jobStore' = UpdateRow(jobStore, j, StatusRow(RowOf(jobStore, j), "paused", FALSE))
     \/ /\ ~PauseReturns(active_jobs, j)
        /\ UNCHANGED <<jobObj, jobStore>>
  /\ UNCHANGED <<active_jobs, request, exec, papers, session, vstore, writes,
                 docLog, fetchInfo, faults>>
  /\ UNCHANGED <<resumedPaused, search, call>>

\* resume_job: the stored status becomes pending, whatever it was.
ResumeJob(j) ==
  /\ jobStore' = UpdateRow(jobStore, j, StatusRow(RowOf(jobStore, j), "pending", FALSE))
  /\ UNCHANGED <<active_jobs, jobObj, request, exec, papers, session, vstore,
                 writes, docLog, fetchInfo, faults>>
  /\ resumedPaused' = [resumedPaused EXCEPT ![j] = RowOf(jobStore, j).status = "paused"]
  /\ UNCHANGED <<search, call>>

\* A cancel that leaves active_jobs as it is.
ActiveAfterCancel_Keep(active, j) == active

\* if job_id in self.active_jobs: del self.active_jobs[job_id]
ActiveAfterCancel(active, j) == active \ {j}

\* cancel_job: the job leaves active_jobs and the stored status becomes failed.
CancelJob(j) ==
  /\ active_jobs' = ActiveAfterCancel(active_jobs, j)
  /\ jobStore' = UpdateRow(jobStore, j, StatusRow(RowOf(jobStore, j), "failed", FALSE))
  /\ UNCHANGED <<jobObj, request, exec, papers, session, vstore, writes, docLog,
                 fetchInfo, faults>>
  /\ UNCHANGED <<resumedPaused, search, call>>

\* ------------------------------------------- process_paper_for_rag alone
\* A record without a title (ArticleTitle missing: the parser yields "").
DocNoTitle == [pmid |-> "p3", doi |-> None, title |-> ""]

\* paper_data as process_paper_for_rag reads it: the title, the abstract, the
\* MeSH terms and the full text (None: no full text; " ": a full text
\* without a word).
RagData ==
  [title : {"", "t1"}, abstract : {None, "a1"}, mesh_terms : {<<>>, <<"m1">>},
   full_text : {None, " ", "w1 w2"}]

\* len(_split_text_into_chunks(text)) for these texts under the configured
\* chunk size: no word gives no chunk, two words give one chunk.
NumChunks(text) == CASE text = " " -> 0 [] text = "w1 w2" -> 1 [] OTHER -> 0

\* generate_paper_embeddings: the keys of the dictionary it returns, in the
\* order it inserts them; a field that is empty or missing yields no key.
GeneratePaperEmbeddings(data) ==
  (IF data.title # "" THEN <<"title">> ELSE <<>>)
    \o (IF data.abstract # None THEN <<"abstract">> ELSE <<>>)
    \o (IF data.mesh_terms # <<>> THEN <<"mesh_terms">> ELSE <<>>)
    \o (IF data.full_text # None THEN <<"full_text_chunks">> ELSE <<>>)

\* f"{paper_id}_{content_type}_{i}" of store_embeddings.
ChunkType(i) == CASE i = 0 -> "chunk_0" [] i = 1 -> "chunk_1" [] OTHER -> "chunk_n"

\* store_embeddings for one key: one entry per chunk for the full text, one
\* entry for any other content type.
StoredFor(id, key, data) ==
  IF key = "full_text_chunks"
    THEN {<<id, ChunkType(i)>> : i \in 0 .. (NumChunks(data.full_text) - 1)}
    ELSE {<<id, key>>}

\* The rows the ingestion of DocA and of DocNoTitle leaves committed.
RagRows == {NewPaper(<<"j1", 1>>, DocA), NewPaper(<<"j1", 2>>, DocNoTitle)}

RagInit ==
  /\ jobStore = <<>>
  /\ active_jobs = {}
  /\ jobObj = [j \in JobIds |-> [status |-> "pending", total_documents |-> 0]]
  /\ request = [j \in JobIds |-> [source_database |-> None, quality_threshold |-> 0]]
  /\ exec = [j \in JobIds |-> IdleExec]
  /\ papers \in SUBSET RagRows
  /\ session = [j \in JobIds |-> {}]
  /\ vstore = {}
  /\ writes = [j \in JobIds |-> <<>>]
  /\ docLog = [j \in JobIds |-> <<>>]
  /\ fetchInfo = [j \in JobIds |-> [called |-> FALSE, raised |-> FALSE,
                                      transport_error |-> FALSE]]
  /\ faults = 0
  /\ resumedPaused = [j \in JobIds |-> FALSE]
  /\ search = IdleSearch
  /\ call = IdleCall

\* process_paper_for_rag(paper_id, paper_data) for the data of a row: the
\* embeddings are stored key after key, then the row found by
\* session.get(Paper, paper_id) is marked processed; when a call raises, the
\* row found is marked failed.
RagProcess(id, data) ==
  /\ LET keys == GeneratePaperEmbeddings(data)
     IN \/ /\ NoFault
           /\ vstore' = vstore \cup
                          UNION {StoredFor(id, keys[n], data) : n \in 1 .. Len(keys)}
           /\ papers' = MarkPaper(papers, id, "processed", TRUE)
        \/ /\ Fault
           /\ \E m \in 0 .. Len(keys) :
                /\ m < Len(keys) \/ m = 0
                /\ vstore' = vstore \cup
                               UNION {StoredFor(id, keys[n], data) : n \in 1 .. m}
           /\ papers' = MarkPaper(papers, id, "failed", FALSE)
  /\ UNCHANGED <<jobStore, active_jobs, jobObj, request, exec, session, writes,
                 docLog, fetchInfo, resumedPaused, search, call>>

RagNext ==
  \E row \in RagRows, data \in RagData :
    /\ data.title = row.title
    /\ RagProcess(row.id, data)

RagSpec == RagInit /\ [][RagNext]_vars

\* -------------------------------------------------- _check_duplicate alone
\* Candidates (paper_data) and stored rows, by the fields the detector reads.
DupCandidates ==
  [pmid : {None, "p1", "p2"}, doi : {None, "d1", "d2"},
   title : {"", "t1", "T1", "t2", "t4"}]

StoredRows ==
  [pmid : {None, "p1"}, doi : {None, "d1"}, title : {"", "t1", "t3"}]

DupInputs ==
  [pc : {"ready"}, doc : DupCandidates,
   visible : {rows \in SUBSET StoredRows : Cardinality(rows) <= 1},
   raises : BOOLEAN]

DupInit ==
  /\ BulkInit
  /\ search = IdleSearch
  /\ call \in DupInputs

\* BulkIngestionService._check_duplicate, applied to the inputs.
CheckDuplicateCall ==
  /\ call.pc = "ready"
  /\ call' = [pc |-> "done", doc |-> call.doc, visible |-> call.visible,
              raises |-> call.raises,
              matched_by |-> IF call.raises THEN "none"
                             ELSE MatchedBy(call.visible, call.doc),
              result |-> CheckDuplicate(call.visible, call.doc, call.raises)]
  /\ UNCHANGED <<jobStore, active_jobs, jobObj, request, exec, papers, session,
                 vstore, writes, docLog, fetchInfo, faults, resumedPaused,
                 search>>

DupNext == CheckDuplicateCall

DupSpec == DupInit /\ [][DupNext]_vars

\* --------------------------------------------------------- _apply_filters
\* An optional value: None is <<>>, the value v is <<v>>.
NoValue == <<>>

Some(v) == <<v>>

\* Strings whose characters matter are sequences of characters.  str.lower()
\* on the characters of the model.
LowerChar(c) ==
  CASE c = "D" -> "d"
    [] c = "C" -> "c"
    [] OTHER -> c

LowerStr(str) == [i \in DOMAIN str |-> LowerChar(str[i])]

\* str.find(sub): the lowest index (from 0) at which sub occurs, or -1.
Find(str, sub) ==
  LET at == {i \in 0..(Len(str) - Len(sub)) :
               SubSeq(str, i + 1, i + Len(sub)) = sub}
  IN IF at = {} THEN -1 ELSE CHOOSE i \in at : \A k \in at : i <= k

\* sub in str
Contains(str, sub) == Find(str, sub) >= 0

\* The columns of a papers row that _apply_filters reads; every one of them
\* is nullable.
FilterPapers ==
  [publication_date : {NoValue, Some(1), Some(3)},
   quality_score : {NoValue, Some(70), Some(95)},
   subject_areas : {NoValue, Some({}), Some({"s1"})},
   journal : {NoValue, Some(<<"d", "C", "n">>), Some(<<"n">>)},
   mesh_terms : {NoValue, Some({}), Some({"m1"})}]

\* No filters (None or an empty dict): "not filters" holds.
NoFilters ==
  [kind |-> "None", date_range_start |-> NoValue, date_range_end |-> NoValue,
   min_quality_score |-> NoValue, subject_area |-> NoValue,
   journal |-> NoValue, mesh_terms |-> NoValue]

\* The filters argument: None, a dict as the annotation of _apply_filters
\* says, or the SearchFilters object of a SearchRequest.
FilterSets ==
  {NoFilters} \cup
  [kind : {"dict", "SearchFilters"},
   date_range_start : {NoValue, Some(2)}, date_range_end : {NoValue, Some(2)},
   min_quality_score : {NoValue, Some(0), Some(90)},
   subject_area : {NoValue, Some("s1")},
   journal : {NoValue, Some(<<"D", "c">>)},
   mesh_terms : {NoValue, Some({"m1", "m2"})}]

\* Lines 179-181.
DateStartStep(paper, filters) ==
  IF /\ filters.date_range_start # NoValue
     /\ paper.publication_date # NoValue
     /\ paper.publication_date[1] < filters.date_range_start[1]
    THEN "drop" ELSE "pass"

\* Lines 183-185.
DateEndStep(paper, filters) ==
  IF /\ filters.date_range_end # NoValue
     /\ paper.publication_date # NoValue
     /\ paper.publication_date[1] > filters.date_range_end[1]
    THEN "drop" ELSE "pass"

\* Lines 188-190: a minimum of None or 0.0 is falsy; None < float raises
\* TypeError.
QualityStep(paper, filters) ==
  IF filters.min_quality_score = NoValue \/ filters.min_quality_score = Some(0)
    THEN "pass"
  ELSE IF paper.quality_score = NoValue THEN "raised"
  ELSE IF paper.quality_score[1] < filters.min_quality_score[1] THEN "drop"
  ELSE "pass"

\* Lines 193-195: "x not in None" raises TypeError.
SubjectAreaStep(paper, filters) ==
  IF filters.subject_area = NoValue THEN "pass"
  ELSE IF paper.subject_areas = NoValue THEN "raised"
  ELSE IF filters.subject_area[1] \notin paper.subject_areas[1] THEN "drop"
  ELSE "pass"

\* Lines 198-200.
JournalStep(paper, filters) ==
  IF filters.journal = NoValue \/ filters.journal = Some(<<>>) THEN "pass"
  ELSE IF \/ paper.journal = NoValue
          \/ paper.journal = Some(<<>>)
          \/ ~Contains(LowerStr(paper.journal[1]), LowerStr(filters.journal[1]))
    THEN "drop" ELSE "pass"

\* Lines 203-207.
MeshStep(paper, filters) ==
  IF filters.mesh_terms = NoValue \/ filters.mesh_terms = Some({}) THEN "pass"
  ELSE IF \/ paper.mesh_terms = NoValue
          \/ paper.mesh_terms = Some({})
          \/ filters.mesh_terms[1] \cap paper.mesh_terms[1] = {}
    THEN "drop" ELSE "pass"

\* The checks in the order the function makes them.
FilterChain(paper, filters) ==
  <<DateStartStep(paper, filters), DateEndStep(paper, filters),
    QualityStep(paper, filters), SubjectAreaStep(paper, filters),
    JournalStep(paper, filters), MeshStep(paper, filters)>>

\* The first check of a chain that does not pass decides; "keep" when all pass.
RECURSIVE FirstDecisive(_)
FirstDecisive(steps) ==
  IF steps = <<>> THEN "keep"
  ELSE IF Head(steps) # "pass" THEN Head(steps)
  ELSE FirstDecisive(Tail(steps))

\* _apply_filters: "keep", "drop", or "raised" when the try body raises.  A
\* SearchFilters object is truthy and has no method get: filters.get raises
\* AttributeError at line 179.
FilterOutcome(paper, filters) ==
  IF filters.kind = "None" THEN "keep"
  ELSE IF filters.kind = "SearchFilters" THEN "raised"
  ELSE FirstDecisive(FilterChain(paper, filters))

\* An except branch that excludes the paper.
ApplyFilters_FailClosed(paper, filters) == FilterOutcome(paper, filters) = "keep"

\* The value _apply_filters returns; the except branch returns True.
ApplyFilters(paper, filters) == FilterOutcome(paper, filters) \in {"keep", "raised"}

FilterInputs == [pc : {"ready"}, paper : FilterPapers, filters : FilterSets]

FilterInit ==
  /\ BulkInit
  /\ search = IdleSearch
  /\ call \in FilterInputs

\* RAGService._apply_filters, applied to the inputs.
ApplyFiltersCall ==
  /\ call.pc = "ready"
  /\ call' = [pc |-> "done", paper |-> call.paper, filters |-> call.filters,
              outcome |-> FilterOutcome(call.paper, call.filters),
              result |-> ApplyFilters(call.paper, call.filters)]
  /\ UNCHANGED <<jobStore, active_jobs, jobObj, request, exec, papers, session,
                 vstore, writes, docLog, fetchInfo, faults, resumedPaused,
                 search>>

FilterNext == ApplyFiltersCall

FilterSpec == FilterInit /\ [][FilterNext]_vars

\* ----------------------------------------------------- _generate_highlight
Max(a, b) == IF a >= b THEN a ELSE b

\* str.split(): the maximal runs of characters other than the space, in order.
Split(str) ==
  LET starts == {i \in DOMAIN str :
                   str[i] # " " /\ (i = 1 \/ str[i - 1] = " ")}
      EndOf(i) == CHOOSE k \in i..Len(str) :
                    /\ \A m \in i..k : str[m] # " "
                    /\ k = Len(str) \/ str[k + 1] = " "
      Nth(n) == CHOOSE i \in starts : Cardinality({x \in starts : x < i}) = n - 1
  IN [n \in 1..Cardinality(starts) |-> SubSeq(str, Nth(n), EndOf(Nth(n)))]

Ellipsis == <<".", ".", ".">>

\* content[a:b] for 0 <= a <= b <= len(content)
Slice(content, a, b) == SubSeq(content, a + 1, b)

\* A window that keeps 200 characters after the end of the context before.
SnippetEnd_FromSnippetStart(content, start_pos) ==
  IF Len(content) <= Max(0, start_pos - ContextBefore) + ContextBefore + ContextAfter + 4
    THEN Len(content)
    ELSE Max(0, start_pos - ContextBefore) + ContextBefore + ContextAfter + 4

\* Line 227.
SnippetEnd(content, start_pos) ==
  IF Len(content) <= start_pos + ContextAfter THEN Len(content)
  ELSE start_pos + ContextAfter

\* Lines 239 and 243.
FallbackHighlight(content) ==
  IF Len(content) > FallbackLength
    THEN Slice(content, 0, FallbackLength) \o Ellipsis
    ELSE content

\* The first word of the query, in query order, that occurs in the
\* lower-cased content; <<>> when none does.
FirstMatchingWord(content, query) ==
  LET query_words == Split(LowerStr(query))
      matching == {n \in DOMAIN query_words :
                     Contains(LowerStr(content), query_words[n])}
  IN IF matching = {} THEN <<>>
     ELSE query_words[CHOOSE n \in matching : \A m \in matching : n <= m]

\* _generate_highlight.
GenerateHighlight(content, query) ==
  LET word == FirstMatchingWord(content, query)
      start_pos == Find(LowerStr(content), word)
      snippet_start == Max(0, start_pos - ContextBefore)
      snippet_end == SnippetEnd(content, start_pos)
  IN IF word = <<>> THEN FallbackHighlight(content)
     ELSE (IF snippet_start > 0 THEN Ellipsis ELSE <<>>)
            \o Slice(content, snippet_start, snippet_end)
            \o (IF snippet_end < Len(content) THEN Ellipsis ELSE <<>>)

\* n filler characters.
Pad(n) == [i \in 1..n |-> "x"]

\* A word of 201 characters.
LongWord == [i \in 1..(ContextAfter + 1) |-> "y"]

PadsBefore == {0, 1, ContextBefore - 1, ContextBefore, ContextBefore + 1, MaxPad}

PadsAfter ==
  {0, 1, ContextAfter - 3, ContextAfter - 2, ContextAfter - 1, ContextAfter,
   MaxPad}

\* Contents: filler, a word (or none), filler.
Contents ==
  {Pad(a) \o w \o Pad(b) :
     a \in PadsBefore, b \in PadsAfter, w \in {<<>>, <<"D", "c">>, LongWord}}

Queries == {<<"d", "C">>, <<"z", " ", "d", "C">>, <<"z">>, LongWord}

HighlightInputs == [pc : {"ready"}, content : Contents, query : Queries]

HighlightInit ==
  /\ BulkInit
  /\ search = IdleSearch
  /\ call \in HighlightInputs

\* RAGService._generate_highlight, applied to the inputs.
GenerateHighlightCall ==
  /\ call.pc = "ready"
  /\ call' = [pc |-> "done", content |-> call.content, query |-> call.query,
              highlight |-> GenerateHighlight(call.content, call.query)]
  /\ UNCHANGED <<jobStore, active_jobs, jobObj, request, exec, papers, session,
                 vstore, writes, docLog, fetchInfo, faults, resumedPaused,
                 search>>

HighlightNext == GenerateHighlightCall

HighlightSpec == HighlightInit /\ [][HighlightNext]_vars

\* ------------------------------------------------- _split_text_into_chunks
\* The n-th word of the texts of the model.
Letter(n) ==
  CASE n = 1 -> "a" [] n = 2 -> "b" [] n = 3 -> "c" [] n = 4 -> "d"
    [] n = 5 -> "e" [] n = 6 -> "f" [] OTHER -> "g"

\* ' '.join(words)
RECURSIVE Join(_)
Join(words) ==
  IF words = <<>> THEN <<>>
  ELSE IF Len(words) = 1 THEN words[1]
  ELSE words[1] \o <<" ">> \o Join(Tail(words))

\* Full texts: n one-letter words separated by one space, and the same texts
\* with white space in front and behind.
Texts ==
  {Join([i \in 1..n |-> <<Letter(i)>>]) : n \in 0..MaxWords} \cup
  {<<" ">> \o Join([i \in 1..n |-> <<Letter(i)>>]) \o <<" ", " ">> : n \in 0..MaxWords}

\* settings.CHUNK_SIZE and settings.CHUNK_OVERLAP with 0 <= overlap < size.
ChunkConfigs ==
  {c \in [chunk_size : 1..MaxChunkSize, overlap : 0..MaxChunkSize] :
     c.overlap < c.chunk_size}

\* Lines 152-159: the locals before the loop.
ChunkInputs ==
  {[pc |-> "loop", text |-> t, chunk_size |-> c.chunk_size,
    overlap |-> c.overlap, words |-> Split(t), start |-> 0, chunks |-> <<>>,
    spans |-> <<>>] : t \in Texts, c \in ChunkConfigs}

ChunkInit ==
  /\ BulkInit
  /\ search = IdleSearch
  /\ call \in ChunkInputs

\* A start that leaves no overlap.
NextStart_NoOverlap(end, len, overlap) == end

\* Line 166.
NextStart(end, len, overlap) == IF end < len THEN end - overlap ELSE end

\* One pass of the loop of lines 160-166; spans records the bounds used.
SplitChunkStep ==
  /\ call.pc = "loop"
  /\ call.start < Len(call.words)
  /\ LET end == Min(call.start + call.chunk_size, Len(call.words))
     IN call' = [call EXCEPT
                   !.chunks = Append(@, Join(Slice(call.words, call.start, end))),
                   !.spans = Append(@, <<call.start, end>>),
                   !.start = NextStart(end, Len(call.words), call.overlap)]
  /\ UNCHANGED <<jobStore, active_jobs, jobObj, request, exec, papers, session,
                 vstore, writes, docLog, fetchInfo, faults, resumedPaused,
                 search>>

\* Line 168: the loop condition fails and the chunks are returned.
SplitChunkReturn ==
  /\ call.pc = "loop"
  /\ ~(call.start < Len(call.words))
  /\ call' = [call EXCEPT !.pc = "done"]
  /\ UNCHANGED <<jobStore, active_jobs, jobObj, request, exec, papers, session,
                 vstore, writes, docLog, fetchInfo, faults, resumedPaused,
                 search>>

ChunkNext == SplitChunkStep \/ SplitChunkReturn

ChunkSpec == ChunkInit /\ [][ChunkNext]_vars

\* The method runs to its end once called: the loop takes its next pass.
FairChunkSpec == ChunkSpec /\ WF_vars(ChunkNext)

\* -------------------------------------------------------- search_papers
\* Similarity scores, in hundredths, and the ids of the papers searched for.
Scores == {60, 82, 91, 95}

SearchPaperIds == {"a", "b"}

Hit == [paper_id : SearchPaperIds, similarity_score : Scores]

\* The filters of a request: None, or a SearchFilters object.
FilterValues ==
  {NoFilters,
   [NoFilters EXCEPT !.kind = "SearchFilters", !.min_quality_score = Some(90)]}

\* The rows of the papers the search can find: "a" as ingestion creates it,
\* "b" with a higher quality score.
SearchPaperRow(id) ==
  [publication_date |-> Some(1),
   quality_score |-> IF id = "a" THEN Some(DEFAULT_QUALITY_SCORE) ELSE Some(95),
   subject_areas |-> Some({"s1"}),
   journal |-> Some(<<"n">>),
   mesh_terms |-> Some({"m1"})]

SearchRequests ==
  [max_results : {1, 2}, min_confidence_score : {60, 70},
   include_full_text : BOOLEAN, filters : FilterValues]

\* What collection.query finds for one content type, nearest first.  A paper
\* has one title and one abstract entry, and any number of chunk entries.
Nearest(hits) ==
  \A m, n \in DOMAIN hits :
    m < n => hits[m].similarity_score >= hits[n].similarity_score

OnePerPaper(hits) ==
  \A m, n \in DOMAIN hits : m # n => hits[m].paper_id # hits[n].paper_id

StoredHits == {hits \in SeqsUpTo(Hit, MaxHits) : Nearest(hits)}

\* The call search_papers makes that raises, if one does: embed_query
\* (lines 88, 99), the averaging of an empty keyword list (lines 94-97,
\* IndexError), search_similar_papers (line 110), get_database_session or
\* session.get (lines 136-138).
SearchFaults ==
  {"none", "embed_query", "no_keywords", "search_similar_papers",
   "get_database_session"}

\* The inputs of one search_papers call.
SearchInputs ==
  {s \in [pc : {"ready"}, req : SearchRequests,
          title : StoredHits, abstract : StoredHits, chunk : StoredHits,
          papers : SUBSET SearchPaperIds, fault : SearchFaults] :
     /\ Len(s.title) + Len(s.abstract) + Len(s.chunk) <= MaxHits
     /\ OnePerPaper(s.title)
     /\ OnePerPaper(s.abstract)}

\* results[:n]
Take(seq, n) == SubSeq(seq, 1, Min(n, Len(seq)))

\* [x for x in seq if x is at or above the threshold], in order.
RECURSIVE AboveThreshold(_, _)
AboveThreshold(hits, threshold) ==
  IF hits = <<>> THEN <<>>
  ELSE IF Head(hits).similarity_score >= threshold
         THEN <<Head(hits)>> \o AboveThreshold(Tail(hits), threshold)
         ELSE AboveThreshold(Tail(hits), threshold)

\* search_similar_papers: the top_k nearest entries of the content type, of
\* which those at or above the threshold are returned.
SearchSimilarPapers(stored, top_k, threshold) ==
  AboveThreshold(Take(stored, top_k), threshold)

\* content_types = ["title", "abstract"] (+ ["chunk"] with include_full_text)
SearchedTypes(req) ==
  IF req.include_full_text THEN <<"title", "abstract", "chunk">>
  ELSE <<"title", "abstract">>

StoredOf(s, type) ==
  CASE type = "title" -> s.title
    [] type = "abstract" -> s.abstract
    [] OTHER -> s.chunk

\* The entry search_papers builds from one result of a content type.
Entry(hit, type) ==
  [paper_id |-> hit.paper_id, content_type |-> type,
   similarity_score |-> hit.similarity_score]

\* The results of the per-type searches, as entries, in the order the two
\* loops of search_papers visit them.
RECURSIVE Visited(_, _)
Visited(s, types) ==
  IF types = <<>> THEN <<>>
  ELSE LET found == SearchSimilarPapers(StoredOf(s, Head(types)),
                                        s.req.max_results,
                                        s.req.min_confidence_score)
       IN [n \in DOMAIN found |-> Entry(found[n], Head(types))]
            \o Visited(s, Tail(types))

\* A membership test that never finds the paper.
SeenCheck_Never(search_results, paper_id) == "new"

\* any(r['paper']['id'] == paper_id for r in search_results): the entries of
\* search_results have no key 'paper', so the test of the first entry raises
\* KeyError; over an empty list nothing is evaluated and any() is False.
SeenCheck(search_results, paper_id) ==
  IF search_results = <<>> THEN "new" ELSE "KeyError"

\* The merge loop of lines 109-128 over the visited entries: the merged list,
\* and whether the loop raised.
RECURSIVE Merge(_, _)
Merge(search_results, rest) ==
  IF rest = <<>> THEN [raised |-> FALSE, list |-> search_results]
  ELSE LET check == SeenCheck(search_results, Head(rest).paper_id)
       IN CASE check = "KeyError" -> [raised |-> TRUE, list |-> search_results]
            [] check = "seen" -> Merge(search_results, Tail(rest))
            [] OTHER -> Merge(Append(search_results, Head(rest)), Tail(rest))

\* list.sort(key=similarity_score, reverse=True): stable, highest first.
RECURSIVE InsertDesc(_, _)
InsertDesc(sorted, x) ==
  IF sorted = <<>> THEN <<x>>
  ELSE IF Head(sorted).similarity_score >= x.similarity_score
         THEN <<Head(sorted)>> \o InsertDesc(Tail(sorted), x)
         ELSE <<x>> \o sorted

RECURSIVE SortDesc(_)
SortDesc(list) ==
  IF list = <<>> THEN <<>>
  ELSE InsertDesc(SortDesc(SubSeq(list, 1, Len(list) - 1)), list[Len(list)])

\* Lines 134-149: the entries whose paper exists and passes the filters.
RECURSIVE Hydrate(_, _)
Hydrate(s, list) ==
  IF list = <<>> THEN <<>>
  ELSE (IF Head(list).paper_id \in s.papers
            /\ ApplyFilters(SearchPaperRow(Head(list).paper_id), s.req.filters)
          THEN <<[paper_id |-> Head(list).paper_id,
                  relevance_score |-> Head(list).similarity_score,
                  content_type |-> Head(list).content_type]>>
          ELSE <<>>)
         \o Hydrate(s, Tail(list))

\* Every visited entry whose paper exists, neither merged, sorted nor cut.
SearchResults_Unsorted(s) == Hydrate(s, Visited(s, SearchedTypes(s.req)))

\* Whether search_papers raised before building its response.
SearchRaised(s) ==
  \/ s.fault # "none"
  \/ Merge(<<>>, Visited(s, SearchedTypes(s.req))).raised

\* A try block that covers the vector searches and the merge only.
InsideTry_SearchOnly(fault) == fault \in {"none", "search_similar_papers"}

\* The try block of search_papers spans lines 85-159: the embedding of the
\* query, the per-type searches, the merge and the hydration.
InsideTry(fault) == fault \in SearchFaults

\* Whether the exception leaves search_papers.
Propagated(s) == SearchRaised(s) /\ ~InsideTry(s.fault)

\* The results of the SearchResponse search_papers returns: empty when
\* something raised (lines 161-170).
SearchResults(s) ==
  IF SearchRaised(s) THEN <<>>
  ELSE Hydrate(s, Take(SortDesc(Merge(<<>>, Visited(s, SearchedTypes(s.req))).list),
                       s.req.max_results))

\* execution_time_ms of the SearchResponse: computed from start_time on both
\* paths (lines 151, 163); there is no response when the exception leaves.
ExecutionTime(s) == IF Propagated(s) THEN None ELSE "elapsed"

SearchInit ==
  /\ BulkInit
  /\ search \in SearchInputs
  /\ call = IdleCall

\* RAGService.search_papers, applied to the inputs.
RagSearchPapers ==
  /\ search.pc = "ready"
  /\ search' = [pc |-> "done", req |-> search.req, title |-> search.title,
                abstract |-> search.abstract, chunk |-> search.chunk,
                papers |-> search.papers, fault |-> search.fault,
                types |-> SearchedTypes(search.req),
                propagated |-> Propagated(search),
                execution_time_ms |-> ExecutionTime(search),
                results |-> SearchResults(search),
                total_results |-> Len(SearchResults(search))]
  /\ UNCHANGED <<jobStore, active_jobs, jobObj, request, exec, papers, session,
                 vstore, writes, docLog, fetchInfo, faults, resumedPaused,
                 call>>

SearchNext == RagSearchPapers

SearchSpec == SearchInit /\ [][SearchNext]_vars

\* ------------------------------------------------------- specification
ExecStep(j) ==
  \/ ExecStart(j)
  \/ FetchPapers(j)
  \/ BeginBatch(j)
  \/ CheckDuplicateStep(j)
  \/ CreatePaperRecord(j)
  \/ ProcessPaperForRag(j)
  \/ SessionCommit(j)
  \/ EndBatch(j)
  \/ CompleteJob(j)

Next ==
  \E j \in JobIds :
    \/ \E src \in Sources, thr \in QualityThresholds : Submit(j, src, thr)
    \/ ExecStep(j)
    \/ PauseJob(j)
    \/ ResumeJob(j)
    \/ CancelJob(j)

Spec == Init /\ [][Next]_vars

\* The event loop runs every task that is ready: an execution that can take
\* a step eventually takes it.
FairSpec == Spec /\ \A j \in JobIds : WF_vars(ExecStep(j))

\* Two jobs submitted to one service, each run by a task of its own; no
\* collaborator call raises.
TwoJobs == {"j1", "j2"}

RaceInit ==
  /\ jobStore = <<>>
  /\ active_jobs = {}
  /\ jobObj = [j \in TwoJobs |-> [status |-> "pending", total_documents |-> 0]]
  /\ request = [j \in TwoJobs |-> [source_database |-> None, quality_threshold |-> 0]]
  /\ exec = [j \in TwoJobs |-> IdleExec]
  /\ papers = {}
  /\ session = [j \in TwoJobs |-> {}]
  /\ vstore = {}
  /\ writes = [j \in TwoJobs |-> <<>>]
  /\ docLog = [j \in TwoJobs |-> <<>>]
  /\ fetchInfo = [j \in TwoJobs |-> [called |-> FALSE, raised |-> FALSE,
                                       transport_error |-> FALSE]]
  /\ faults = MaxFaults
  /\ resumedPaused = [j \in TwoJobs |-> FALSE]
  /\ search = IdleSearch
  /\ call = IdleCall

RaceNext ==
  \E j \in TwoJobs :
    \/ \E src \in Sources, thr \in QualityThresholds : Submit(j, src, thr)
    \/ ExecStep(j)

RaceSpec == RaceInit /\ [][RaceNext]_vars

\* The two places that swallow an evaluation error, side by side: a behaviour
\* is either a run of the ingestion service or one call of _apply_filters.
FailOpenInit ==
  /\ BulkInit
  /\ search = IdleSearch
  /\ call \in FilterInputs \cup {IdleCall}

FailOpenNext ==
  \/ call = IdleCall /\ Next
  \/ ApplyFiltersCall

FailOpenSpec == FailOpenInit /\ [][FailOpenNext]_vars

\* ------------------------------------------------------------ properties
Done(j) == exec[j].pc = "done"

Last(seq) == seq[Len(seq)]

\* Indices of the progress writes of job j, of its final writes, and of both.
ProgressIdx(j) == {n \in DOMAIN writes[j] : writes[j][n].op = "progress"}
CompletionIdx(j) == {n \in DOMAIN writes[j] : writes[j][n].op = "completion"}
CountersAddUp(row) ==
  row.processed_documents =
    row.successful_documents + row.failed_documents + row.duplicate_documents

RaisedOutcomes == {"raised_create", "raised_rag", "raised_commit"}

\* C1: at every progress write and at the final completed or failed write of
\* a job, processed_documents = successful_documents + failed_documents +
\* duplicate_documents, whichever per-document step raised.
C1_CountersAddUp ==
  \A j \in JobIds :
    \A n \in ProgressIdx(j) \cup CompletionIdx(j) : CountersAddUp(writes[j][n].row)

\* C2: a document whose processing raises adds exactly one message to the
\* errors and exactly 1 to the failed count (and nothing to the other
\* counts); the documents after it are still processed, and unless a
\* job-level call raised the job ends completed.
C2_PartialFailureIsolation ==
  \A j \in JobIds :
    /\ \A n \in DOMAIN docLog[j] :
         docLog[j][n].outcome \in RaisedOutcomes =>
           /\ docLog[j][n].errors = 1
           /\ docLog[j][n].failed = 1
    /\ (Done(j) /\ writes[j] # <<>> /\ Last(writes[j]).status = "completed") =>
         Len(docLog[j]) = Len(exec[j].papers_data)
    /\ (Done(j) /\ docLog[j] # <<>> /\ Len(docLog[j]) = Len(exec[j].papers_data)) =>
         Last(writes[j]).status = "completed"

\* A run of job j in which no collaborator call raised.
ErrorFree(j) ==
  /\ ~fetchInfo[j].raised
  /\ ~fetchInfo[j].transport_error
  /\ \A n \in DOMAIN docLog[j] :
       docLog[j][n].outcome \notin RaisedOutcomes /\ ~docLog[j][n].check_raised

FinishedCompleted(j) ==
  Done(j) /\ writes[j] # <<>> /\ Last(writes[j]).status = "completed"

\* C3: in a job that ran without error, a document and a later document with
\* the same pmid leave exactly one paper row with that pmid and the later one
\* counts 1 duplicate; for three fetched documents of which the second shares
\* its pmid with the first, with a threshold not above the default score, the
\* final job row is total 3, successful 2, failed 0, duplicate 1, processed 3
\* and completed.
C3_DuplicateIdempotent ==
  \A j \in JobIds :
    (FinishedCompleted(j) /\ ErrorFree(j)) =>
      /\ \A a, b \in DOMAIN exec[j].papers_data :
           (a < b /\ exec[j].papers_data[a].pmid = exec[j].papers_data[b].pmid) =>
             /\ Cardinality({p \in papers : p.pmid = exec[j].papers_data[a].pmid}) = 1
             /\ docLog[j][b].duplicates = 1
      /\ (/\ Len(exec[j].papers_data) = 3
          /\ exec[j].papers_data[1].pmid = exec[j].papers_data[2].pmid
          /\ exec[j].papers_data[3].pmid # exec[j].papers_data[1].pmid
          /\ request[j].quality_threshold <= DEFAULT_QUALITY_SCORE) =>
           /\ Last(writes[j]).row.total_documents = 3
           /\ Last(writes[j]).row.successful_documents = 2
           /\ Last(writes[j]).row.failed_documents = 0
           /\ Last(writes[j]).row.duplicate_documents = 1
           /\ Last(writes[j]).row.processed_documents = 3

Submitted(j) == exec[j].pc # "idle"

\* The request of job j names a source other than pubmed.
UnsupportedRequest(j) == Submitted(j) /\ request[j].source_database # "pubmed"

\* C4 as stated: a request whose source is not supported leaves no job row
\* and no entry in active_jobs.
C4_UnsupportedSourceRejected ==
  \A j \in JobIds :
    UnsupportedRequest(j) =>
      (j \notin DOMAIN jobStore /\ j \notin active_jobs)

ZeroCounters(row) ==
  /\ row.processed_documents = 0
  /\ row.successful_documents = 0
  /\ row.failed_documents = 0
  /\ row.duplicate_documents = 0

PapersOf(j) == {p \in papers \cup session[j] : p.id[1] = j}

\* C4 as amended: a request whose source is not supported is accepted, its
\* job row is created pending; the execution never calls the paper source and
\* processes nothing, and once it has started it ends the job with the writes
\* pending, running, failed, the failed write carrying the single error
\* "Unsupported source database", every counter 0, and the job out of
\* active_jobs.
C4_UnsupportedSourceFailsInExecution ==
  \A j \in JobIds :
    UnsupportedRequest(j) =>
      /\ j \in DOMAIN jobStore
      /\ writes[j][1].op = "create" /\ writes[j][1].status = "pending"
      /\ ~fetchInfo[j].called
      /\ docLog[j] = <<>>
      /\ PapersOf(j) = {}
      /\ ZeroCounters(jobStore[j])
      /\ (Done(j) /\ Len(writes[j]) >= 2) =>
           /\ Len(writes[j]) = 3
           /\ writes[j][2].status = "running"
           /\ writes[j][3].op = "completion"
           /\ writes[j][3].status = "failed"
           /\ writes[j][3].row.errors =
                <<<<"Unsupported source database", request[j].source_database>>>>
           /\ j \notin active_jobs

C4_Witness ==
  \E j \in JobIds :
    /\ UnsupportedRequest(j)
    /\ Done(j)
    /\ Len(writes[j]) = 3

\* C5: when the fetch call raises, the execution's writes are running and
\* then failed with nothing in between, the stored errors are exactly that
\* one error, no document is processed, no paper row is created and every
\* stored counter is 0.
C5_FetchRaiseFailsJob ==
  \A j \in JobIds :
    fetchInfo[j].raised =>
      /\ Done(j)
      /\ Len(writes[j]) = 3
      /\ writes[j][2].op = "status" /\ writes[j][2].status = "running"
      /\ writes[j][3].op = "completion" /\ writes[j][3].status = "failed"
      /\ jobStore[j].errors = <<"fetch raised">>
      /\ docLog[j] = <<>>
      /\ PapersOf(j) = {}
      /\ ZeroCounters(jobStore[j])

C5_Witness == \E j \in JobIds : fetchInfo[j].raised

\* C6: a transport error inside the paper source during the bulk fetch
\* aborts the job: the execution ends it failed and never writes completed.
C6_TransportErrorFailsJob ==
  \A j \in JobIds :
    (fetchInfo[j].transport_error /\ Done(j)) =>
      /\ Last(writes[j]).status = "failed"
      /\ \A n \in DOMAIN writes[j] : writes[j][n].status # "completed"

Started(j) == Len(writes[j]) >= 2

TerminalWritten(j) ==
  /\ writes[j] # <<>>
  /\ Last(writes[j]).op = "completion"
  /\ Last(writes[j]).status \in {"completed", "failed"}
  /\ Last(writes[j]).row.completed_at = "set"

\* The order of the writes of a job: the row is created pending; the first
\* write of the execution sets running and started_at, before any counter is
\* written; a final write sets completed_at, and says completed only when
\* every batch was processed.
LifecycleOrder(j) ==
  /\ writes[j] # <<>> =>
       /\ writes[j][1].op = "create"
       /\ writes[j][1].status = "pending"
       /\ writes[j][1].row.started_at = None
  /\ Started(j) =>
       /\ writes[j][2].op = "status"
       /\ writes[j][2].status = "running"
       /\ writes[j][2].row.started_at = "set"
       /\ ZeroCounters(writes[j][2].row)
  /\ \A n \in DOMAIN writes[j] :
       /\ n >= 3 => writes[j][n].op \in {"progress", "completion"}
       /\ writes[j][n].op = "completion" =>
            /\ n = Len(writes[j])
            /\ writes[j][n].row.completed_at = "set"
            /\ writes[j][n].status = "completed" =>
                 exec[j].total_processed = Len(exec[j].papers_data)

\* C7: a submitted job is stored pending; its execution first writes running
\* with started_at, before any counter write; and every execution that has
\* started eventually writes a terminal status with completed_at set.
C7_Lifecycle ==
  /\ [](\A j \in JobIds : LifecycleOrder(j))
  /\ \A j \in JobIds : Started(j) ~> TerminalWritten(j)

C7_Witness ==
  \E j \in JobIds :
    /\ TerminalWritten(j)
    /\ Last(writes[j]).status = "completed"
    /\ Len(exec[j].papers_data) = MaxDocs

TerminalStatuses == {"completed", "failed", "cancelled"}

\* C8: once the stored status of a job is completed, failed or cancelled, no
\* step changes it.
C8_TerminalAbsorbing ==
  [][\A j \in DOMAIN jobStore :
       jobStore[j].status \in TerminalStatuses =>
         jobStore'[j].status = jobStore[j].status]_vars

\* a <= b for two ratios <<numerator, denominator>> with positive denominators.
RatioLeq(a, b) == a[1] * b[2] <= b[1] * a[2]

\* C9: within one execution, successive progress writes have non-decreasing
\* processed_documents and progress_percentage, and progress_percentage is
\* 100 whenever processed_documents equals the number of fetched documents
\* and that number is greater than 0.
C9_ProgressMonotone ==
  \A j \in JobIds :
    /\ \A m, n \in ProgressIdx(j) :
         m < n =>
           /\ writes[j][m].row.processed_documents <= writes[j][n].row.processed_documents
           /\ RatioLeq(writes[j][m].row.progress_percentage,
                       writes[j][n].row.progress_percentage)
    /\ \A n \in ProgressIdx(j) :
         (/\ Len(exec[j].papers_data) > 0
          /\ writes[j][n].row.processed_documents = Len(exec[j].papers_data)) =>
           writes[j][n].row.progress_percentage[1] =
             100 * writes[j][n].row.progress_percentage[2]

C9_Witness ==
  \E j \in JobIds :
    /\ Len(exec[j].papers_data) = MaxDocs
    /\ Cardinality(ProgressIdx(j)) >= 3
    /\ \E n \in ProgressIdx(j) :
         /\ writes[j][n].row.processed_documents = MaxDocs
         /\ writes[j][n].row.progress_percentage = <<100 * MaxDocs, MaxDocs>>

\* C10: from the first progress write of a job on, the job row as read by
\* get_job_status has total_documents equal to the number of fetched
\* documents.
C10_TotalDocumentsStored ==
  \A j \in JobIds :
    ProgressIdx(j) # {} =>
      GetJobStatus(j)[1].total_documents = Len(exec[j].papers_data)

IsPrefix(a, b) == Len(a) <= Len(b) /\ \A n \in DOMAIN a : a[n] = b[n]

\* C11: the stored errors of a job are append-only: over the progress writes
\* and the final completed or failed write, every stored errors value extends
\* the one stored by the write before it, earlier messages keeping their
\* positions.
C11_ErrorsAppendOnly ==
  \A j \in JobIds :
    \A m, n \in ProgressIdx(j) \cup CompletionIdx(j) :
      m < n => IsPrefix(writes[j][m].row.errors, writes[j][n].row.errors)

\* The positions of an execution inside a batch.
InBatchPcs == {"check", "create", "rag", "commit", "batch_end"}

InBatch(j) == exec[j].pc \in InBatchPcs

\* Offsets at which a batch can start.
BatchOffsets == 0 .. MaxDocs

\* A step that turns the stored status of job j into paused.
PauseStep(j) ==
  /\ j \in DOMAIN jobStore
  /\ jobStore[j].status # "paused"
  /\ jobStore'[j].status = "paused"

\* C12: the stored status becomes paused only for a job in active_jobs, by a
\* step that changes no other column of the row, no counter and nothing of
\* the execution; a job that is not in active_jobs is never made paused; and
\* an execution inside a batch while the stored status is paused finishes
\* that batch.
C12_PauseAdvisory ==
  /\ [][\A j \in JobIds :
          PauseStep(j) =>
            /\ j \in active_jobs
            /\ jobStore'[j] = [jobStore[j] EXCEPT !.status = "paused"]
            /\ UNCHANGED <<active_jobs, exec, papers, session, vstore, writes, docLog>>]_vars
  /\ \A j \in JobIds : \A b \in BatchOffsets :
       (InBatch(j) /\ exec[j].i = b /\ jobStore[j].status = "paused")
         ~> (exec[j].i > b \/ exec[j].pc \in {"complete", "done"})

C12_Witness ==
  \E j \in JobIds :
    /\ exec[j].pc = "commit"
    /\ jobStore[j].status = "paused"
    /\ j \in active_jobs

\* The stored status of job j is the pending that a resume of the paused job
\* wrote.
ResumedFromPaused(j) ==
  /\ j \in DOMAIN jobStore
  /\ resumedPaused[j]
  /\ jobStore[j].status = "pending"

\* C13: after resume has set a paused job to pending, an execution eventually
\* picks the job up: its stored status becomes running again.
C13_ResumeRestarts ==
  \A j \in JobIds :
    ResumedFromPaused(j) ~> (RowOf(jobStore, j).status = "running")

\* C14: at every progress write of a job the stored resume_from_position is
\* the index, in the fetched documents (counted from 0), of the next
\* unprocessed document, that is the number of documents processed so far.
C14_ResumePositionTracksProgress ==
  \A j \in JobIds :
    \A n \in ProgressIdx(j) :
      writes[j][n].row.resume_from_position = writes[j][n].row.processed_documents

\* A step that turns the stored status of job j into failed and is not a
\* step of its execution.
CancelStep(j) ==
  /\ j \in DOMAIN jobStore
  /\ jobStore[j].status # "failed"
  /\ jobStore'[j].status = "failed"
  /\ exec'[j] = exec[j]

\* The execution of job j is between its fetch and its last batch while the
\* job is no longer in active_jobs.
CancelledInLoop(j) ==
  /\ exec[j].pc \in InBatchPcs \cup {"batch"}
  /\ j \notin active_jobs

ProgressCounts == 0 .. (MaxDocs + 2)

\* C15: cancel sets the stored status to failed, takes the job out of
\* active_jobs and touches nothing of the execution; an execution that is in
\* its batch loop when the job is cancelled still writes the progress of the
\* batch it is in, and runs to its end: to completed with every fetched
\* document processed, unless a job-level call raises.
C15_CancelAdvisory ==
  /\ [][\A j \in JobIds :
          CancelStep(j) =>
            /\ j \notin active_jobs'
            /\ jobStore'[j] = [jobStore[j] EXCEPT !.status = "failed"]
            /\ UNCHANGED <<exec, papers, session, vstore, writes, docLog>>]_vars
  /\ \A j \in JobIds : \A c \in ProgressCounts :
       (CancelledInLoop(j) /\ InBatch(j) /\ Cardinality(ProgressIdx(j)) = c)
         ~> (Cardinality(ProgressIdx(j)) > c)
  /\ \A j \in JobIds :
       CancelledInLoop(j)
         ~> (/\ Done(j)
             /\ \/ Last(writes[j]).status = "failed"
                \/ /\ Last(writes[j]).status = "completed"
                   /\ exec[j].total_processed = Len(exec[j].papers_data))

C15_Witness ==
  \E j \in JobIds :
    /\ CancelledInLoop(j)
    /\ exec[j].pc = "rag"
    /\ jobStore[j].status = "failed"

AllPaperRows == papers \cup UNION {session[j] : j \in JobIds}

SearchDone == search.pc = "done"

\* A finished search none of whose calls to other services raised.
SearchDoneNoFault == SearchDone /\ search.fault = "none"

C18_NoRepeatedId ==
  SearchDone =>
    \A m, n \in DOMAIN search.results :
      m # n => search.results[m].paper_id # search.results[n].paper_id

\* The per-type searches returned the same paper more than once.
RepeatedMatch(s) ==
  LET visited == Visited(s, SearchedTypes(s.req))
  IN \E m, n \in DOMAIN visited :
       m # n /\ visited[m].paper_id = visited[n].paper_id

C18_Witness ==
  /\ SearchDoneNoFault
  /\ RepeatedMatch(search)
  /\ \E n \in DOMAIN search.chunk : search.chunk[n].paper_id \in search.papers

\* The first of the searched content types whose search returned the paper.
FirstTypeOf(s, id) ==
  LET visited == Visited(s, SearchedTypes(s.req))
      first == CHOOSE n \in DOMAIN visited :
                 /\ visited[n].paper_id = id
                 /\ \A m \in DOMAIN visited : visited[m].paper_id = id => n <= m
  IN visited[first]

\* C19: a returned entry is the match of the earliest searched content type
\* (title, abstract, chunk) in which its paper was found, even when a later
\* type scores higher; a paper found on title at 0.6 and on abstract at 0.95,
\* both at or above the minimum score, is returned once, with score 0.6.
C19_FirstSeenWins ==
  SearchDoneNoFault =>
    /\ \A n \in DOMAIN search.results :
         /\ search.results[n].content_type =
              FirstTypeOf(search, search.results[n].paper_id).content_type
         /\ search.results[n].relevance_score =
              FirstTypeOf(search, search.results[n].paper_id).similarity_score
    /\ \A id \in search.papers :
         (/\ search.title = <<[paper_id |-> id, similarity_score |-> 60]>>
          /\ search.abstract = <<[paper_id |-> id, similarity_score |-> 95]>>
          /\ search.req.min_confidence_score <= 60)
           => search.results =
                <<[paper_id |-> id, relevance_score |-> 60, content_type |-> "title"]>>

\* The papers of the repository that some searched content type returned.
Matching(s) ==
  LET visited == Visited(s, SearchedTypes(s.req))
  IN {id \in s.papers : \E n \in DOMAIN visited : visited[n].paper_id = id}

ResultIds(s) == {s.results[n].paper_id : n \in DOMAIN s.results}

\* C20: a search queries title and abstract, and chunk only with
\* include_full_text; it returns one result for each paper of the repository
\* that those searches return at or above the minimum score, up to
\* max_results; a paper scoring 0.82 on abstract and 0.91 on chunk, searched
\* without include_full_text, gives exactly one result with score 0.82.
C20_OneResultPerMatch ==
  SearchDoneNoFault =>
    /\ search.types = IF search.req.include_full_text
                        THEN <<"title", "abstract", "chunk">>
                        ELSE <<"title", "abstract">>
    /\ ResultIds(search) \subseteq Matching(search)
    /\ Len(search.results) = Cardinality(ResultIds(search))
    /\ Cardinality(Matching(search)) <= search.req.max_results
         => ResultIds(search) = Matching(search)
    /\ \A id \in search.papers :
         (/\ search.title = <<>>
          /\ search.abstract = <<[paper_id |-> id, similarity_score |-> 82]>>
          /\ search.chunk = <<[paper_id |-> id, similarity_score |-> 91]>>
          /\ ~search.req.include_full_text
          /\ search.req.min_confidence_score = 70)
           => /\ Len(search.results) = 1
              /\ search.results[1].relevance_score = 82

\* C21: search_papers never lets an exception reach its caller: when the
\* embedding of the query (an empty keyword list included), a per-type vector
\* search, the merge or the hydration raises, it returns a response with an
\* empty result list, total_results 0 and the elapsed time.
C21_SearchNeverRaises ==
  (SearchDone /\ (search.fault # "none" \/ RepeatedMatch(search))) =>
    /\ ~search.propagated
    /\ search.results = <<>>
    /\ search.total_results = 0
    /\ search.execution_time_ms = "elapsed"

C21_Witness ==
  /\ SearchDone
  /\ search.fault = "no_keywords"
  /\ Len(search.title) > 0
  /\ search.title[1].paper_id \in search.papers
  /\ search.title[1].similarity_score >= search.req.min_confidence_score
  /\ search.results = <<>>

\* The paper does not satisfy a filter that the filters set, read off the
\* values alone.
FailsActiveFilter(paper, filters) ==
  \/ /\ filters.min_quality_score # NoValue
     /\ paper.quality_score # NoValue
     /\ paper.quality_score[1] < filters.min_quality_score[1]
  \/ /\ filters.date_range_start # NoValue
     /\ paper.publication_date # NoValue
     /\ paper.publication_date[1] < filters.date_range_start[1]
  \/ /\ filters.date_range_end # NoValue
     /\ paper.publication_date # NoValue
     /\ paper.publication_date[1] > filters.date_range_end[1]
  \/ /\ filters.subject_area # NoValue
     /\ paper.subject_areas # NoValue
     /\ filters.subject_area[1] \notin paper.subject_areas[1]
  \/ /\ filters.journal # NoValue
     /\ \/ paper.journal = NoValue
        \/ ~Contains(LowerStr(paper.journal[1]), LowerStr(filters.journal[1]))
  \/ /\ filters.mesh_terms # NoValue
     /\ filters.mesh_terms[1] # {}
     /\ \/ paper.mesh_terms = NoValue
        \/ filters.mesh_terms[1] \cap paper.mesh_terms[1] = {}

\* a is b with some elements left out, the others in the same order.
RECURSIVE IsSubsequence(_, _)
IsSubsequence(a, b) ==
  IF a = <<>> THEN TRUE
  ELSE IF b = <<>> THEN FALSE
  ELSE IF Head(a) = Head(b) THEN IsSubsequence(Tail(a), Tail(b))
  ELSE IsSubsequence(a, Tail(b))

\* C22: a paper that fails an active filter of the search request is absent
\* from the results of the search; no other paper takes its place and the
\* remaining results keep their order.
C22_FailingPaperDropped ==
  SearchDoneNoFault =>
    /\ \A n \in DOMAIN search.results :
         ~FailsActiveFilter(SearchPaperRow(search.results[n].paper_id),
                            search.req.filters)
    /\ IsSubsequence(search.results,
                     SearchResults([search EXCEPT !.req.filters = NoFilters]))

\* C23: when the duplicate check raises, the candidate is treated as not a
\* duplicate and its ingestion goes on to the creation of its record; when the
\* evaluation of the filters raises for a paper, the paper is kept.
C23_FailOpen ==
  /\ \A j \in JobIds :
       /\ exec[j].checkRaised => exec[j].pc \in {"create", "rag", "commit"}
       /\ \A n \in DOMAIN docLog[j] :
            docLog[j][n].check_raised =>
              /\ docLog[j][n].outcome # "duplicate"
              /\ docLog[j][n].duplicates = 0
  /\ (call.pc = "done" /\ call.outcome = "raised") => call.result = TRUE

C23_Witness ==
  \E j \in JobIds : \E n \in DOMAIN docLog[j] :
    /\ docLog[j][n].check_raised
    /\ docLog[j][n].outcome = "successful"
    /\ \E p \in papers : p.pmid = docLog[j][n].doc.pmid

\* The chain that checks the quality score first, then the date range, the
\* subject area, the journal and the MeSH terms.
ReferenceChain(paper, filters) ==
  <<QualityStep(paper, filters), DateStartStep(paper, filters),
    DateEndStep(paper, filters), SubjectAreaStep(paper, filters),
    JournalStep(paper, filters), MeshStep(paper, filters)>>

\* C28: for every paper and filter set, papers with missing fields included,
\* _apply_filters decides as the chain that evaluates quality-score minimum,
\* date range, subject area, journal substring and MeSH overlap in that
\* order, drops on the first failing filter and keeps on the first error.
C28_MatchesReferenceChain ==
  call.pc = "done" =>
    call.result = (FirstDecisive(ReferenceChain(call.paper, call.filters)) # "drop")

\* A finished _generate_highlight call whose content holds a word of the query.
HighlightMatched ==
  /\ call.pc = "done"
  /\ FirstMatchingWord(call.content, call.query) # <<>>

\* Position (from 0) of the first matching word in the content.
MatchPos == Find(LowerStr(call.content), FirstMatchingWord(call.content, call.query))

\* The content from 50 characters before the match to 200 characters after
\* its start, with an ellipsis on each side that was cut.
WindowAround(content, pos) ==
  (IF pos > ContextBefore THEN Ellipsis ELSE <<>>)
    \o Slice(content, Max(0, pos - ContextBefore),
             Min(Len(content), pos + ContextAfter))
    \o (IF pos + ContextAfter < Len(content) THEN Ellipsis ELSE <<>>)

\* C24: whenever a word of the query occurs in the content (ignoring case),
\* the highlight contains that word and has at most 253 characters; it is the
\* window from 50 characters before to 200 characters after the match, with
\* an ellipsis on each clipped side.
C24_HighlightAtMost253 ==
  HighlightMatched =>
    /\ Contains(LowerStr(call.highlight), FirstMatchingWord(call.content, call.query))
    /\ Len(call.highlight) <= 253
    /\ call.highlight = WindowAround(call.content, MatchPos)

\* C24, amended: the highlight is that window and has at most 256 characters
\* (250 of content and two ellipses); it contains the matched word when the
\* word has at most 200 characters, and the first 200 characters of the word
\* otherwise.
C24_HighlightAtMost256 ==
  HighlightMatched =>
    LET word == FirstMatchingWord(call.content, call.query)
    IN /\ Contains(LowerStr(call.highlight),
                   SubSeq(word, 1, Min(Len(word), ContextAfter)))
       /\ Len(call.highlight) <= ContextBefore + ContextAfter + 2 * Len(Ellipsis)
       /\ call.highlight = WindowAround(call.content, MatchPos)

C24_Witness ==
  /\ HighlightMatched
  /\ MatchPos > ContextBefore
  /\ MatchPos + ContextAfter < Len(call.content)
  /\ Len(call.highlight) = 256

\* The chunks returned for the text of the call: starts strictly increase,
\* no chunk has more than chunk_size words, consecutive chunks share exactly
\* overlap words, and together the chunks cover every word.
ChunksWellFormed ==
  /\ Len(call.spans) = Len(call.chunks)
  /\ \A k \in DOMAIN call.chunks :
       /\ Split(call.chunks[k]) = Slice(call.words, call.spans[k][1], call.spans[k][2])
       /\ Len(Split(call.chunks[k])) <= call.chunk_size
       /\ Len(Split(call.chunks[k])) >= 1
  /\ \A k \in DOMAIN call.spans :
       k > 1 =>
         /\ call.spans[k - 1][1] < call.spans[k][1]
         /\ call.spans[k - 1][2] - call.spans[k][1] = call.overlap
         /\ Slice(Split(call.chunks[k - 1]),
                  Len(Split(call.chunks[k - 1])) - call.overlap,
                  Len(Split(call.chunks[k - 1])))
              = Slice(Split(call.chunks[k]), 0, call.overlap)
  /\ \A i \in 0..(Len(call.words) - 1) :
       \E k \in DOMAIN call.spans : call.spans[k][1] <= i /\ i < call.spans[k][2]

\* C29: for every text and every configuration with 0 <= overlap < chunk_size
\* the splitting of the text terminates, and the chunks it returns have
\* strictly increasing starts, at most chunk_size words each, exactly overlap
\* words shared by consecutive chunks, and cover every word of the text.
C29_ChunkingTerminates == <>(call.pc = "done" /\ ChunksWellFormed)

C29_Witness ==
  /\ call.pc = "done"
  /\ Len(call.chunks) >= 3
  /\ call.overlap > 0
  /\ Len(Split(call.chunks[Len(call.chunks)])) < call.chunk_size

\* The default score is at or above the threshold of job j's request.
AtOrAboveThreshold(j) == DEFAULT_QUALITY_SCORE >= request[j].quality_threshold

\* C26: a document that is not a duplicate is created with the default
\* quality score and status processing; below the request's threshold it is
\* marked failed, counts 1 failed and gets no embedding; at or above the
\* threshold (equality included) the embedding path is invoked and, when it
\* returns, the document counts 1 successful.
C26_QualityGate ==
  \A j \in JobIds :
    /\ \A p \in session[j] :
         /\ p.quality_score = DEFAULT_QUALITY_SCORE
         /\ p.processing_status =
              IF AtOrAboveThreshold(j) THEN "processing" ELSE "failed"
    /\ exec[j].pc = "rag" => AtOrAboveThreshold(j)
    /\ (exec[j].pc = "commit" /\ ~AtOrAboveThreshold(j)) =>
         /\ exec[j].results.failed = exec[j].docStart.failed + 1
         /\ exec[j].results.successful = exec[j].docStart.successful
    /\ (exec[j].pc = "commit" /\ AtOrAboveThreshold(j)) =>
         /\ exec[j].results.successful = exec[j].docStart.successful + 1
         /\ exec[j].results.failed = exec[j].docStart.failed
    /\ \A n \in DOMAIN docLog[j] :
         /\ docLog[j][n].outcome = "low_quality" =>
              /\ ~AtOrAboveThreshold(j)
              /\ docLog[j][n].failed = 1
              /\ docLog[j][n].successful = 0
         /\ docLog[j][n].outcome \in {"successful", "raised_rag"} =>
              AtOrAboveThreshold(j)
         /\ docLog[j][n].outcome = "successful" =>
              /\ docLog[j][n].successful = 1
              /\ docLog[j][n].failed = 0
              /\ docLog[j][n].doc.title # "" =>
                   <<<<j, docLog[j][n].index>>, "title">> \in vstore
    /\ ~AtOrAboveThreshold(j) => \A e \in vstore : e[1][1] # j

C26_Witness ==
  \E j \in JobIds : \E n \in DOMAIN docLog[j] :
    /\ request[j].quality_threshold = DEFAULT_QUALITY_SCORE
    /\ docLog[j][n].outcome = "successful"
    /\ <<<<j, docLog[j][n].index>>, "title">> \in vstore
    /\ \E p \in papers : p.id = <<j, docLog[j][n].index>>

\* A finished _check_duplicate call none of whose queries raised.
DupChecked == call.pc = "done" /\ ~call.raises

PmidMatch == call.doc.pmid # None /\ \E p \in call.visible : p.pmid = call.doc.pmid

DoiMatch == call.doc.doi # None /\ \E p \in call.visible : p.doi = call.doc.doi

TitleMatch ==
  \E p \in call.visible :
    HashPrefix(Lower(p.title)) = HashPrefix(Lower(call.doc.title))

PersistedOf(j) == {p \in papers : p.id[1] = j}

\* C30: when a job ends completed, the number of its persisted rows with
\* status processed and embedding_generated true equals successful_documents,
\* every document counted as failed is not persisted or persisted with status
\* failed, and none of its rows is persisted with status processing.
C30_RecordsAgreeWithCounters ==
  \A j \in JobIds :
    FinishedCompleted(j) =>
      /\ Cardinality({p \in PersistedOf(j) :
                        p.processing_status = "processed" /\ p.embedding_generated})
           = Last(writes[j]).row.successful_documents
      /\ \A n \in DOMAIN docLog[j] :
           docLog[j][n].failed > 0 =>
             \A p \in PersistedOf(j) :
               p.id = <<j, docLog[j][n].index>> => p.processing_status = "failed"
      /\ \A p \in PersistedOf(j) : p.processing_status # "processing"

\* Documents n of job j and m of job k carry the same pmid and neither was
\* found to be a duplicate: both passed the check before either was committed.
BothPassedCheck(j, n, k, m) ==
  /\ j # k
  /\ docLog[j][n].doc.pmid # None
  /\ docLog[j][n].doc.pmid = docLog[k][m].doc.pmid
  /\ docLog[j][n].outcome # "duplicate"
  /\ docLog[k][m].outcome # "duplicate"

RecordsWithPmid(pmid) == {p \in papers : p.pmid = pmid}

\* C25: when two concurrent jobs both pass the duplicate check for a document
\* with the same pmid before either commits, the repository ends up with two
\* records carrying that pmid.
C25_RaceLeavesTwoRecords ==
  \A j, k \in TwoJobs : \A n \in DOMAIN docLog[j], m \in DOMAIN docLog[k] :
    (Done(j) /\ Done(k) /\ BothPassedCheck(j, n, k, m)) =>
      Cardinality(RecordsWithPmid(docLog[j][n].doc.pmid)) = 2

\* C25, amended: two concurrent jobs can both pass the duplicate check for
\* the same pmid, but the repository never holds two records with one pmid:
\* the insert of the job that comes second raises, its document counts
\* 1 failed with 1 error message, and one record carries the pmid.
C25_RaceLeavesOneRecord ==
  /\ \A p, q \in papers : (p.pmid # None /\ p.pmid = q.pmid) => p = q
  /\ \A j, k \in TwoJobs : \A n \in DOMAIN docLog[j], m \in DOMAIN docLog[k] :
       (Done(j) /\ Done(k) /\ BothPassedCheck(j, n, k, m)) =>
         /\ Cardinality(RecordsWithPmid(docLog[j][n].doc.pmid)) = 1
         /\ \/ docLog[j][n].outcome = "raised_create"
            \/ docLog[k][m].outcome = "raised_create"
         /\ \A e \in {docLog[j][n], docLog[k][m]} :
              e.outcome = "raised_create" =>
                e.failed = 1 /\ e.successful = 0 /\ e.errors = 1

C25_Witness ==
  /\ \A j \in TwoJobs : Done(j)
  /\ \E n \in DOMAIN docLog["j1"], m \in DOMAIN docLog["j2"] :
       /\ BothPassedCheck("j1", n, "j2", m)
       /\ docLog["j1"][n].outcome = "successful"
       /\ docLog["j2"][m].outcome = "raised_create"

====
